---- MODULE Spec2Model ----
(***************************************************************************)
(* Model of the synthetic "training" and "forecast" routines of the        *)
(* emigration dashboard:                                                   *)
(*   - computeSyntheticMetrics / tuneHyperparameters                       *)
(*       (training page src/unnamed/part_004, forecast page                *)
(*        src/src/routes/forecast.tsx)                                     *)
(*   - generateForecastFromHistory / predictNextValue                      *)
(*       (src/src/routes/forecast.tsx)                                     *)
(*                                                                         *)
(* Arithmetic.  The code computes in IEEE doubles.  The model computes the *)
(* same expressions exactly, as integers over a fixed unit:                *)
(*   - losses in units of 1e-7 (every loss of the grid is a whole number   *)
(*     of such units, and none lies on a toFixed(4) rounding boundary),    *)
(*   - forecast quantities as numerator/denominator pairs.                 *)
(* The non-finite doubles the code can produce (NaN, +Infinity, -Infinity) *)
(* are modelled explicitly.                                                *)
(***************************************************************************)
EXTENDS Integers, Sequences, FiniteSets, TLC

\* ---------------------------------------------------------------------
\* Bounds of the model
\* ---------------------------------------------------------------------
MaxSeed == 11        \* seeds 0..MaxSeed (seed mod 11 and seed mod 5 take every value)
MaxLen == 3          \* longest history drawn
MaxHorizon == 2      \* largest horizonYears drawn for the forecast generator
MaxTrainSeed == 1    \* training runs that pass the data check, per page
MaxForecastSeed == 1 \* presses of Generate since the last training run or Reset
MaxLoads == 2        \* model loads of the forecast page in flight together

VARIABLES
  \* --- tuneHyperparameters(history, seed) ---
  page,          \* which copy of the function runs: "training" | "forecast"
  tuneHistory,   \* argument history
  tuneSeed,      \* argument seed
  tunePc,        \* "start" | "loop" | "done" | "idle"
  candidates,    \* const candidates: TunedParams[]
  tuneI,         \* loop variable i (0-based)
  best,          \* let best: {params, metrics} | null
  evaluated,     \* log of the computeSyntheticMetrics calls: [params, seed]
  tuneResult,    \* the value returned
  \* --- generateForecastFromHistory(history, horizonYears, params, seed) ---
  fcHistory,     \* argument history
  horizonYears,  \* argument horizonYears
  fcParams,      \* argument params
  fcSeed,        \* argument seed
  fcPc,          \* "start" | "loop" | "done" | "threw" | "idle"
  fcI,           \* loop variable i
  rolling,       \* const rolling = [...history]
  points,        \* const points
  steps,         \* log of the predictNextValue calls (arguments and intermediates)
  fcResult,      \* the value returned
  \* --- mergedSeries = [...historical, ...forecastPoints].sort(...) ---
  mergeHistorical,  \* const historical: the rows made of the history
  mergeForecast,    \* const forecastPoints: the rows made of the forecast
  mergePc,          \* "start" | "done" | "idle"
  mergedSeries,     \* const mergedSeries
  \* --- Firestore ---
  mlModels,         \* collection "mlModels": the documents in the order added
  mlModels_latest,  \* collection "mlModels_latest": age bracket -> document | null
  serverTime,       \* the server clock that resolves serverTimestamp()
  \* --- state of the two pages, page -> value ---
  ageGroup,         \* useState("")
  horizon,          \* useState("10 Years")
  isTraining,       \* useState(false)
  trainSeed,        \* useState(0)
  lastTrainResult,  \* useState(null) (lastResult on the training page)
  trainRun,         \* the pending call of handleTrain: its closure and position, or null
  \* --- state of the forecast page only ---
  isLoadingModel,   \* useState(false)
  loadedModel,      \* useState(null)
  history,          \* useState([])
  forecastSeed,     \* useState(0)
  hasGenerated,     \* useState(false)
  loads,            \* the pending runs of the load effect, in the order started
  \* --- state of the manual-parameter page (component MLForecast) ---
  mlForecast,       \* its useState values, a record with the names of the code
  timer,            \* const timer = setTimeout(..., 900) of handleTrain is pending
  saveRun,          \* the pending call of handleSaveModel: its modelData, or null
  resetIsLast       \* history variable: the last user action on the page was Reset

tuneVars == <<page, tuneHistory, tuneSeed, tunePc, candidates, tuneI, best,
              evaluated, tuneResult>>
fcVars == <<fcHistory, horizonYears, fcParams, fcSeed, fcPc, fcI, rolling,
            points, steps, fcResult>>
mergeVars == <<mergeHistorical, mergeForecast, mergePc, mergedSeries>>
\* the state of the pages around the two functions
dbVars == <<mlModels, mlModels_latest, serverTime>>
pageVars == <<ageGroup, horizon, isTraining, trainSeed, lastTrainResult, trainRun,
              isLoadingModel, loadedModel, history, forecastSeed, hasGenerated, loads>>
manualVars == <<mlForecast, timer, saveRun, resetIsLast>>
appVars == <<mergeVars, dbVars, pageVars, manualVars>>
vars == <<page, tuneHistory, tuneSeed, tunePc, candidates, tuneI, best,
          evaluated, tuneResult,
          fcHistory, horizonYears, fcParams, fcSeed, fcPc, fcI, rolling,
          points, steps, fcResult, appVars>>

\* ---------------------------------------------------------------------
\* JavaScript values
\* ---------------------------------------------------------------------
\* null
Null == [null |-> TRUE]

\* a finite double holding the whole number n
Num(n) == [nan |-> FALSE, n |-> n]

\* the double NaN
NaN == [nan |-> TRUE, n |-> 0]

IsNull(x) == x = Null

Max(a, b) == IF a >= b THEN a ELSE b
Min(a, b) == IF a <= b THEN a ELSE b
Abs(a) == IF a < 0 THEN -a ELSE a

RECURSIVE Flatten(_)
Flatten(ss) == IF ss = <<>> THEN <<>> ELSE Head(ss) \o Flatten(Tail(ss))

\* ---------------------------------------------------------------------
\* Series
\* ---------------------------------------------------------------------
Point(y, v) == [year |-> y, value |-> Num(v)]

\* The series of the concrete scenario; the selector only reads its length.
SampleSeries == <<Point(2018, 100), Point(2019, 110), Point(2020, 120)>>

\* History lengths the selector is run on: the prefixes of SampleSeries and
\* its extensions by one more year each, up to MaxLen points.
SeriesOfLen(n) == [k \in 1..n |-> IF k <= Len(SampleSeries) THEN SampleSeries[k]
                                  ELSE Point(2020 + (k - Len(SampleSeries)), 120)]

TuneHistories == {SeriesOfLen(n) : n \in 0..MaxLen}

\* ---------------------------------------------------------------------
\* computeSyntheticMetrics
\* ---------------------------------------------------------------------
\* const ACTIVATIONS of the page the function is defined in
ACTIVATIONS(pg) == IF pg = "training" THEN <<"ReLU", "Tanh", "Sigmoid">>
                   ELSE <<"ReLU">>

lookbacks == <<2, 3, 4, 5, 6>>
neurons1 == <<32, 64, 96, 128>>
neurons2 == <<0, 16, 32, 64>>
optimizers == <<"Adam", "RMSProp", "SGD">>

\* activationBoost of the loss formula, in hundredths: 0.95 / 0.98 / 1.03
LossActivationBoost(act) == IF act = "ReLU" THEN 95
                            ELSE IF act = "Tanh" THEN 98 ELSE 103

\* baseLoss = 0.01 + 0.002*max(0, lookback-3) + 0.0015*neuronsScore, in 1e-5;
\* neuronsScore = (n1+n2)/200, so 0.0015*neuronsScore = 0.75e-5*(n1+n2), and
\* n1+n2 is a multiple of 4 for every layer size of the grid.
BaseLoss(params) ==
  1000 + 200 * Max(0, params.lookback - 3)
       + (3 * (params.neuronsLayer1 + params.neuronsLayer2)) \div 4

\* jitter = ((seed % 11) - 5) * 0.0006, in 1e-7 (seed >= 0)
LossJitter(seed) == ((seed % 11) - 5) * 6000

\* trainingLoss = max(0.001, baseLoss*activationBoost + jitter), in 1e-7
TrainingLoss(params, seed) ==
  Max(10000, BaseLoss(params) * LossActivationBoost(params.activation)
             + LossJitter(seed))

\* validationLoss = max(0.001, trainingLoss + 0.0025 + |jitter|*0.5), in 1e-7
ValidationLoss(params, seed) ==
  Max(10000, TrainingLoss(params, seed) + 25000 + Abs(LossJitter(seed)) \div 2)

\* x.toFixed(4) of a loss x given in 1e-7: the decimal string with 4 digits
\* after the point, represented by its digits read as a whole number
\* ("0.0110" is 110).  Rounds to nearest, a tie upwards.
ToFixed4(x) == (x + 500) \div 1000

\* Number(s) of a string produced by toFixed(4), back in units of 1e-7
NumberOfFixed4(s) == s * 1000

\* mae = 0.05 + lookback/50 + (1/max(1, n))*0.1 with n = history.length || 1,
\* as mae.toFixed(3): the digits of the 3-decimal string read as a whole number.
Mae(h, params) ==
  LET n0 == IF Len(h) = 0 THEN 1 ELSE Len(h)
      n == Max(1, n0)
      num == (50 + 20 * params.lookback) * n + 100    \* mae*1000 = num/n
  IN  (2 * num + n) \div (2 * n)

computeSyntheticMetrics(h, params, seed) ==
  [trainingLoss |-> ToFixed4(TrainingLoss(params, seed)),
   validationLoss |-> ToFixed4(ValidationLoss(params, seed)),
   mae |-> Mae(h, params)]

\* ---------------------------------------------------------------------
\* tuneHyperparameters
\* ---------------------------------------------------------------------
\* mutant of OptimizerOf: the seed is left out of the index
OptimizerOfNoSeed(lb, n1, n2, seed) ==
  optimizers[((lb + n1 + n2) % Len(optimizers)) + 1]

\* const opt = optimizers[(lb + n1 + n2 + seed) % optimizers.length]
OptimizerOf(lb, n1, n2, seed) ==
  optimizers[((lb + n1 + n2 + seed) % Len(optimizers)) + 1]

\* the four nested for-of loops that fill candidates
Candidates(pg, seed) ==
  Flatten([a \in 1..Len(lookbacks) |->
    Flatten([b \in 1..Len(neurons1) |->
      Flatten([c \in 1..Len(neurons2) |->
        [d \in 1..Len(ACTIVATIONS(pg)) |->
          [lookback |-> lookbacks[a],
           neuronsLayer1 |-> neurons1[b],
           neuronsLayer2 |-> neurons2[c],
           activation |-> ACTIVATIONS(pg)[d],
           optimizer |-> OptimizerOf(lookbacks[a], neurons1[b], neurons2[c], seed)]]])])])

\* mutant of SubSeed: every candidate scored with the caller's seed
SubSeedShared(seed, i) == seed

\* the sub-seed passed to computeSyntheticMetrics for candidates[i] (0-based i)
SubSeed(seed, i) == seed + i

\* mutant of Improves: the !best test is missing, so nothing replaces null
ImprovesOnlyOverBest(metrics, b) ==
  /\ b # Null
  /\ NumberOfFixed4(metrics.validationLoss) < NumberOfFixed4(b.metrics.validationLoss)

\* mutant of Improves: <= in place of <, so the last of several equal wins
ImprovesOrTies(metrics, b) ==
  \/ b = Null
  \/ NumberOfFixed4(metrics.validationLoss) <= NumberOfFixed4(b.metrics.validationLoss)

\* the test  !best || val < Number(best.metrics.validationLoss)
Improves(metrics, b) ==
  \/ b = Null
  \/ NumberOfFixed4(metrics.validationLoss) < NumberOfFixed4(b.metrics.validationLoss)

\* no call of tuneHyperparameters is under way
TuneIdle ==
  /\ page = "training"
  /\ tuneHistory = <<>>
  /\ tuneSeed = 0
  /\ tunePc = "idle"
  /\ candidates = <<>>
  /\ tuneI = 0
  /\ best = Null
  /\ evaluated = <<>>
  /\ tuneResult = Null

\* the candidate grid is built
TuneBuild ==
  /\ tunePc = "start"
  /\ candidates' = Candidates(page, tuneSeed)
  /\ tuneI' = 0
  /\ best' = Null
  /\ tunePc' = "loop"
  /\ UNCHANGED <<page, tuneHistory, tuneSeed, evaluated, tuneResult>>
  /\ UNCHANGED <<fcVars, appVars>>

\* one iteration of  for (let i = 0; i < candidates.length; i++)
TuneIter ==
  /\ tunePc = "loop"
  /\ tuneI < Len(candidates)
  /\ LET params == candidates[tuneI + 1]
         metrics == computeSyntheticMetrics(tuneHistory, params, SubSeed(tuneSeed, tuneI))
     IN  /\ best' = IF Improves(metrics, best)
                    THEN [params |-> params, metrics |-> metrics]
                    ELSE best
         /\ evaluated' = Append(evaluated,
                                [params |-> params, seed |-> SubSeed(tuneSeed, tuneI)])
  /\ tuneI' = tuneI + 1
  /\ UNCHANGED <<page, tuneHistory, tuneSeed, tunePc, candidates, tuneResult>>
  /\ UNCHANGED <<fcVars, appVars>>

\* the loop ends and best is returned
TuneReturn ==
  /\ tunePc = "loop"
  /\ tuneI >= Len(candidates)
  /\ tuneResult' = best
  /\ tunePc' = "done"
  /\ UNCHANGED <<page, tuneHistory, tuneSeed, candidates, tuneI, best, evaluated>>
  /\ UNCHANGED <<fcVars, appVars>>

TuneNext == TuneBuild \/ TuneIter \/ TuneReturn

\* the iterations lo <= i < hi of the loop of tuneHyperparameters, entered
\* with best = b: the value of best after them.  A run of several iterations
\* is its first half followed by its second half; the test on first has the
\* first half evaluated before the second is entered.
RECURSIVE TuneLoop(_, _, _, _, _, _)
TuneLoop(cands, h, seed, lo, hi, b) ==
  IF lo >= hi THEN b
  ELSE IF hi = lo + 1
  THEN LET params == cands[lo + 1]
           metrics == computeSyntheticMetrics(h, params, SubSeed(seed, lo))
       IN  IF Improves(metrics, b)
           THEN [params |-> params, metrics |-> metrics]
           ELSE b
  ELSE LET mid == (lo + hi) \div 2
           first == TuneLoop(cands, h, seed, lo, mid, b)
       IN  IF first = Null
           THEN TuneLoop(cands, h, seed, mid, hi, Null)
           ELSE TuneLoop(cands, h, seed, mid, hi, first)

\* tuneHyperparameters(history, seed) of page pg as one value: what the
\* steps TuneBuild, TuneIter, TuneReturn compute
tuneHyperparameters(pg, h, seed) ==
  LET cands == Candidates(pg, seed)
  IN  TuneLoop(cands, h, seed, 0, Len(cands), Null)

\* ---------------------------------------------------------------------
\* predictNextValue
\* ---------------------------------------------------------------------
\* Inputs of the forecast generator.  loadAgeSeries sorts by year and drops
\* values <= 0, and keeps two documents of the same Year as two points.
Values == {10, 100, 110, 120}

YearSeqs(n) == {ys \in [1..n -> 2018..2020] :
                  /\ (n > 0 => ys[1] = 2018)
                  /\ \A k \in 1..(n - 1) : ys[k + 1] - ys[k] \in {0, 1}}

HistoriesOfLen(n) == {[k \in 1..n |-> Point(ys[k], vs[k])] :
                        ys \in YearSeqs(n), vs \in [1..n -> Values]}

FcHistories == UNION {HistoriesOfLen(n) : n \in 0..MaxLen}

FcConfigs == {[lookback |-> lb, neuronsLayer1 |-> 64, neuronsLayer2 |-> 0,
               activation |-> act, optimizer |-> "Adam"] :
                lb \in {2, 3}, act \in {"ReLU", "Tanh", "Sigmoid"}}

FcSeeds == {0, 3}

RECURSIVE SumValues(_)
SumValues(w) == IF w = <<>> THEN 0 ELSE Head(w).value.n + SumValues(Tail(w))

AnyNaN(w) == \E k \in 1..Len(w) : w[k].value.nan

Sign(a) == IF a < 0 THEN -1 ELSE IF a > 0 THEN 1 ELSE 0

\* const last = history[history.length - 1]
LastOf(h) == h[Len(h)]

\* const window = history.slice(Math.max(0, history.length - params.lookback))
Window(h, p) == SubSeq(h, Max(0, Len(h) - p.lookback) + 1, Len(h))

\* baseline: the mean of the window values, or last.value for an empty
\* window; the quotient num/den, or NaN
Baseline(h, p) ==
  LET w == Window(h, p)
  IN  IF Len(w) > 0
      THEN [nan |-> AnyNaN(w), num |-> SumValues(w), den |-> Len(w)]
      ELSE [nan |-> LastOf(h).value.nan, num |-> LastOf(h).value.n, den |-> 1]

\* const prev = history[Math.max(0, history.length - params.lookback - 1)]
Prev(h, p) == h[Max(0, Len(h) - p.lookback - 1) + 1]

\* a double quotient a/b of the whole-number quotient num/den by the whole
\* number dy: finite, or +Infinity / -Infinity / NaN when dy = 0
Quotient(num, den, dy) ==
  IF dy # 0
  THEN [kind |-> "fin", num |-> num * Sign(dy), den |-> den * Abs(dy)]
  ELSE IF num > 0 THEN [kind |-> "+inf", num |-> 0, den |-> 1]
  ELSE IF num < 0 THEN [kind |-> "-inf", num |-> 0, den |-> 1]
  ELSE [kind |-> "nan", num |-> 0, den |-> 1]

\* mutant of RawSlope: the history.length > 1 test is missing
RawSlopeUnguarded(h, p) ==
  LET b == Baseline(h, p)
      prev == Prev(h, p)
  IN  IF b.nan \/ prev.value.nan
      THEN [kind |-> "nan", num |-> 0, den |-> 1]
      ELSE Quotient(b.num - prev.value.n * b.den, b.den,
                    LastOf(h).year - prev.year)

\* rawSlope = history.length > 1
\*              ? (baseline - prev.value) / (last.year - prev.year) : 0
RawSlope(h, p) ==
  LET b == Baseline(h, p)
      prev == Prev(h, p)
  IN  IF Len(h) > 1
      THEN IF b.nan \/ prev.value.nan
           THEN [kind |-> "nan", num |-> 0, den |-> 1]
           ELSE Quotient(b.num - prev.value.n * b.den, b.den,
                         LastOf(h).year - prev.year)
      ELSE [kind |-> "fin", num |-> 0, den |-> 1]

\* Math.max(lo, Math.min(hi, raw)) on numerators over one denominator
Clamp(lo, hi, raw) == Max(lo, Min(hi, raw))

\* slope = Math.max(-baseline*0.5, Math.min(baseline*0.5, rawSlope)):
\* the quotient num/den with den = 2 * baseline.den * rawSlope.den, or NaN
\* (Math.min and Math.max return NaN when an argument is NaN)
Slope(h, p) ==
  LET b == Baseline(h, p)
      raw == RawSlope(h, p)
      den == 2 * b.den * raw.den
      hi == b.num * raw.den
      lo == -hi
  IN  IF b.nan \/ raw.kind = "nan" THEN [nan |-> TRUE, num |-> 0, den |-> den]
      ELSE IF raw.kind = "+inf" THEN [nan |-> FALSE, num |-> Max(lo, hi), den |-> den]
      ELSE IF raw.kind = "-inf" THEN [nan |-> FALSE, num |-> lo, den |-> den]
      ELSE [nan |-> FALSE, num |-> Clamp(lo, hi, raw.num * 2 * b.den), den |-> den]

\* mutant of ActivationBoost: the selector's table 0.95 / 0.98 / 1.03
ActivationBoostOfLoss(act) == IF act = "ReLU" THEN 95
                              ELSE IF act = "Tanh" THEN 98 ELSE 103

\* activationBoost of the generator, in hundredths: 1.05 / 1.02 / 0.98
ActivationBoost(act) == IF act = "ReLU" THEN 105
                        ELSE IF act = "Tanh" THEN 102 ELSE 98

\* jitter = ((seed % 5) - 2) * 0.01 * baseline, in hundredths of baseline
JitterFactor(seed) == (seed % 5) - 2

\* noise = 0.02 * baseline, in hundredths of baseline
NoiseFactor == 2

\* Math.round(x) of the quotient num/den >= 0, den > 0: the nearest whole
\* number.  When the exact value lies half-way between two whole numbers the
\* double the code computed lies on either side of it (rounding error of the
\* sum), so both neighbours are outcomes.
Round(num, den) ==
  LET up == (2 * num + den) \div (2 * den)
  IN  IF (2 * num + den) % (2 * den) = 0 THEN {up - 1, up} ELSE {up}

\* predictNextValue(history, params, seed): the values it can return, each
\* null, NaN or a whole number
predictNextValue(h, p, seed) ==
  IF Len(h) = 0 THEN {Null}
  ELSE
    LET b == Baseline(h, p)
        sl == Slope(h, p)
        \* every term over the denominator 100 * sl.den
        unit == b.num * (sl.den \div b.den)
        baselineT == 100 * unit
        slopeT == sl.num * ActivationBoost(p.activation)
        noiseT == NoiseFactor * unit
        jitterT == JitterFactor(seed) * unit
        value == Max(0, baselineT + slopeT - noiseT + jitterT)
    IN  IF b.nan \/ sl.nan THEN {NaN}
        ELSE {Num(r) : r \in Round(value, 100 * sl.den)}

\* ---------------------------------------------------------------------
\* generateForecastFromHistory
\* ---------------------------------------------------------------------
\* mutant of ReturnsEarly: the empty-history guard is missing
ReturnsEarlyNever(h) == FALSE

\* if (history.length === 0) return [];
ReturnsEarly(h) == Len(h) = 0

\* mutant of StepSeed: the caller's seed is passed on unchanged
StepSeedUnshifted(seed, i) == seed

\* the seed passed to predictNextValue at loop index i
StepSeed(seed, i) == seed + i

\* const year = startYear + i
StepYear(startYear, i) == startYear + i

\* mutant of LoopContinues: < in place of <=
LoopContinuesStrict(i, h) == i < h

\* the loop test  i <= horizonYears
LoopContinues(i, h) == i <= h

\* const value = Math.max(0, predicted ?? 0)
ValueOf(predicted) ==
  IF IsNull(predicted) THEN Num(0)
  ELSE IF predicted.nan THEN NaN
  ELSE Num(Max(0, predicted.n))

\* mutant of PushRolling: the predicted point is not fed back
PushRollingSkipped(r, pt) == r

\* rolling.push({ year, value })
PushRolling(r, pt) == Append(r, pt)

\* mutant of HistoryAfterPush: const rolling = history, one array under two
\* names, so the push shows in the caller's array
HistoryAfterPushAliased(h, pushed) == pushed

\* the caller's array after rolling.push: const rolling = [...history] is a
\* new array, so the caller's array is as it was
HistoryAfterPush(h, pushed) == h

\* no call of generateForecastFromHistory is under way
FcIdle ==
  /\ fcHistory = <<>>
  /\ horizonYears = 0
  /\ fcParams = Null
  /\ fcSeed = 0
  /\ fcPc = "idle"
  /\ fcI = 0
  /\ rolling = <<>>
  /\ points = <<>>
  /\ steps = <<>>
  /\ fcResult = Null

\* entry: the empty-history return, else points, startYear and rolling are
\* set up.  history[history.length - 1].year of an empty array throws.
FcStart ==
  /\ fcPc = "start"
  /\ IF ReturnsEarly(fcHistory)
     THEN /\ fcResult' = <<>>
          /\ fcPc' = "done"
          /\ UNCHANGED <<fcI, rolling, points>>
     ELSE IF Len(fcHistory) = 0
     THEN /\ fcPc' = "threw"
          /\ UNCHANGED <<fcI, rolling, points, fcResult>>
     ELSE /\ points' = <<>>
          /\ rolling' = fcHistory
          /\ fcI' = 1
          /\ fcPc' = "loop"
          /\ UNCHANGED fcResult
  /\ UNCHANGED <<fcHistory, horizonYears, fcParams, fcSeed, steps>>
  /\ UNCHANGED <<tuneVars, appVars>>

\* one iteration of  for (let i = step; i <= horizonYears; i += step)
FcIter ==
  /\ fcPc = "loop"
  /\ LoopContinues(fcI, horizonYears)
  /\ \E predicted \in predictNextValue(rolling, fcParams, StepSeed(fcSeed, fcI)) :
     LET startYear == LastOf(fcHistory).year
         year == StepYear(startYear, fcI)
         value == ValueOf(predicted)
     IN  /\ points' = Append(points, [year |-> year, value |-> value])
         /\ rolling' = PushRolling(rolling, [year |-> year, value |-> value])
         /\ steps' = Append(steps,
                            [history |-> rolling,
                             seed |-> StepSeed(fcSeed, fcI),
                             window |-> Window(rolling, fcParams),
                             baseline |-> Baseline(rolling, fcParams),
                             prev |-> Prev(rolling, fcParams),
                             last |-> LastOf(rolling),
                             rawSlope |-> RawSlope(rolling, fcParams),
                             slope |-> Slope(rolling, fcParams),
                             predicted |-> predicted])
  /\ fcHistory' = HistoryAfterPush(fcHistory, rolling')
  /\ fcI' = fcI + 1
  /\ UNCHANGED <<horizonYears, fcParams, fcSeed, fcPc, fcResult>>
  /\ UNCHANGED <<tuneVars, appVars>>

\* the loop ends and points is returned
FcReturn ==
  /\ fcPc = "loop"
  /\ ~LoopContinues(fcI, horizonYears)
  /\ fcResult' = points
  /\ fcPc' = "done"
  /\ UNCHANGED <<fcHistory, horizonYears, fcParams, fcSeed, fcI, rolling, points, steps>>
  /\ UNCHANGED <<tuneVars, appVars>>

FcNext == FcStart \/ FcIter \/ FcReturn

\* ---------------------------------------------------------------------
\* mergedSeries
\* ---------------------------------------------------------------------
\* history.map(p => ({year: p.year, historical: p.value, forecast: null}))
HistoricalRows(h) ==
  [k \in 1..Len(h) |-> [year |-> h[k].year, historical |-> h[k].value, forecast |-> Null]]

\* points.map(p => ({year: p.year, historical: null, forecast: p.value}))
ForecastRows(ps) ==
  [k \in 1..Len(ps) |-> [year |-> ps[k].year, historical |-> Null, forecast |-> ps[k].value]]

\* the comparator (a, b) => a.year - b.year
CompareYear(a, b) == a.year - b.year

\* mutant of ComesAfter: a row of equal year is moved behind the new one too
ComesAfterOrEqual(a, row) == CompareYear(a, row) >= 0

\* Array.prototype.sort is stable: a row moves in front of exactly the rows
\* the comparator puts after it
ComesAfter(a, row) == CompareYear(a, row) > 0

RECURSIVE InsertRow(_, _)
InsertRow(sorted, row) ==
  IF sorted = <<>> THEN <<row>>
  ELSE IF ComesAfter(Head(sorted), row) THEN <<row>> \o sorted
  ELSE <<Head(sorted)>> \o InsertRow(Tail(sorted), row)

\* rows.sort((a, b) => a.year - b.year)
RECURSIVE SortByYear(_)
SortByYear(rows) ==
  IF rows = <<>> THEN <<>>
  ELSE InsertRow(SortByYear(SubSeq(rows, 1, Len(rows) - 1)), rows[Len(rows)])

\* Inputs of the merge.  The historical rows come from a series sorted by
\* year (two points may share a year); the forecast rows have consecutive
\* years.  In the pages the first forecast year follows the last history year;
\* the merge itself takes any two row sequences, so start years inside the
\* history are drawn as well.
MergeYearSeqs(n) == {ys \in [1..n -> 2018..2020] :
                       \A k \in 1..(n - 1) : ys[k + 1] >= ys[k]}

MergeHistories == UNION {{[k \in 1..n |-> Point(ys[k], 90 + 10 * k)] : ys \in MergeYearSeqs(n)} :
                           n \in 0..MaxLen}

MergeForecasts == {[k \in 1..n |-> Point(y0 + k - 1, 110 + k)] :
                     y0 \in 2019..2021, n \in 0..MaxHorizon}

\* no merge is under way
MergeIdle ==
  /\ mergeHistorical = <<>>
  /\ mergeForecast = <<>>
  /\ mergePc = "idle"
  /\ mergedSeries = <<>>

\* const mergedSeries = [...historical, ...forecastPoints].sort(...)
Merge ==
  /\ mergePc = "start"
  /\ mergedSeries' = SortByYear(mergeHistorical \o mergeForecast)
  /\ mergePc' = "done"
  /\ UNCHANGED <<mergeHistorical, mergeForecast>>
  /\ UNCHANGED <<tuneVars, fcVars, dbVars, pageVars, manualVars>>

\* the page is rendered again: the merge is computed anew from the same rows
MergeAgain ==
  /\ mergePc = "done"
  /\ mergedSeries' = <<>>
  /\ mergePc' = "start"
  /\ UNCHANGED <<mergeHistorical, mergeForecast>>
  /\ UNCHANGED <<tuneVars, fcVars, dbVars, pageVars, manualVars>>

MergeNext == Merge \/ MergeAgain

\* ---------------------------------------------------------------------
\* The forecast page (MLForecast) and the training page (TrainingPage)
\* ---------------------------------------------------------------------
Pages == {"forecast", "training"}

\* what loadAgeGroups returns: the age brackets of the dataset, sorted
AgeGroups == <<"15-19", "20-24">>

\* what loadAgeSeries(ageGroup) returns: the first bracket has the three
\* points of the sample series, the second a single year with a value > 0
AgeSeries(g) == IF g = AgeGroups[1] THEN SampleSeries ELSE <<Point(2020, 10)>>

HORIZONS == <<"3 Years", "5 Years", "10 Years">>

\* the horizons the user is taken to pick among: on the forecast page the
\* default and one other; on the training page, where the horizon only
\* reaches the horizon fields of the stored record, the default
HorizonsPicked(p) == IF p = "forecast" THEN {"5 Years", "10 Years"} ELSE {"10 Years"}

\* const match = horizon.match(/\d+/); match ? Number(match[0]) : 5
HorizonYears(h) == IF h = "3 Years" THEN 3
                   ELSE IF h = "10 Years" THEN 10 ELSE 5

\* the sentinel serverTimestamp() puts into a document before it is written;
\* server times are 0, 1, 2, ...
ServerTimestamp == -1

\* the document the server stores at time t: the sentinel is resolved
Stored(modelData, t) == [modelData EXCEPT !.savedAt = t]

\* a StoredModel written by an earlier version of the training code: the
\* optional fields dataset and trainSeed are absent, the optional metrics
\* rmse, mape, r2 and accuracy are present
EarlierModel(g) ==
  [ageGroup |-> g, horizon |-> "10 Years", horizonYears |-> 10,
   tunedParams |-> [lookback |-> 3, neuronsLayer1 |-> 64, neuronsLayer2 |-> 32,
                    activation |-> "ReLU", optimizer |-> "Adam"],
   metrics |-> [mae |-> 117, rmse |-> 150, mape |-> 4, r2 |-> 9, accuracy |-> 96,
                trainingLoss |-> 110, validationLoss |-> 135]]

\* mutant of SetDoc: setDoc(ref, data, {merge: true}), fields of the old
\* document that the new one lacks survive (in nested maps too)
SetDocMerge(old, new) ==
  IF old = Null THEN new
  ELSE LET fields == DOMAIN old \cup DOMAIN new
           keys == DOMAIN old.metrics \cup DOMAIN new.metrics
           metrics == [k \in keys |-> IF k \in DOMAIN new.metrics
                                      THEN new.metrics[k] ELSE old.metrics[k]]
       IN  [f \in fields |-> IF f = "metrics" THEN metrics
                             ELSE IF f \in DOMAIN new THEN new[f] ELSE old[f]]

\* setDoc(ref, data): the document becomes data, whatever it was
SetDoc(old, new) == new

\* tuneHyperparameters(series, nextSeed) for the calls handleTrain makes
TunedOf == [p \in Pages |-> [g \in {AgeGroups[k] : k \in 1..Len(AgeGroups)} |->
              [seed \in 1..MaxTrainSeed |-> tuneHyperparameters(p, AgeSeries(g), seed)]]]

\* const modelData = {...} of handleTrain
ModelData(run, series, tuned, nextSeed) ==
  [ageGroup |-> run.ageGroup,
   horizon |-> run.horizon,
   horizonYears |-> HorizonYears(run.horizon),
   tunedParams |-> tuned.params,
   metrics |-> tuned.metrics,
   dataset |-> [k \in 1..Len(series) |->
                  [year |-> series[k].year, emigrants |-> series[k].value]],
   trainSeed |-> nextSeed,
   savedAt |-> ServerTimestamp]

\* const modelSeed = loadedModel.trainSeed ?? 0
ModelSeed(m) == IF "trainSeed" \in DOMAIN m THEN m.trainSeed ELSE 0

\* the call of generateForecastFromHistory the forecastPoints memo makes on
\* a render of the forecast page: its arguments, or null when it returns []
\* before the call
ForecastCall ==
  IF loadedModel = Null THEN Null
  ELSE IF ~hasGenerated THEN Null
  ELSE [history |-> history,
        horizonYears |-> HorizonYears(horizon["forecast"]),
        params |-> loadedModel.tunedParams,
        seed |-> ModelSeed(loadedModel) + forecastSeed]

\* the sequence s without its k-th element
RemoveAt(s, k) == SubSeq(s, 1, k - 1) \o SubSeq(s, k + 1, Len(s))

\* the state of both pages after construction, on an empty database
PagesIdle ==
  /\ mlModels = <<>>
  /\ mlModels_latest = [g \in {AgeGroups[k] : k \in 1..Len(AgeGroups)} |-> Null]
  /\ serverTime = 0
  /\ ageGroup = [p \in Pages |-> ""]
  /\ horizon = [p \in Pages |-> "10 Years"]
  /\ isTraining = [p \in Pages |-> FALSE]
  /\ trainSeed = [p \in Pages |-> 0]
  /\ lastTrainResult = [p \in Pages |-> Null]
  /\ trainRun = [p \in Pages |-> Null]
  /\ isLoadingModel = FALSE
  /\ loadedModel = Null
  /\ history = <<>>
  /\ forecastSeed = 0
  /\ hasGenerated = FALSE
  /\ loads = <<>>

\* the synchronous head of the load effect for age bracket g
StartLoad(g) ==
  /\ isLoadingModel' = TRUE
  /\ loadedModel' = Null
  /\ hasGenerated' = FALSE
  /\ loads' = Append(loads, [ageGroup |-> g, pc |-> "series"])

\* loadAgeGroups resolves on a page that has no age bracket yet: the first
\* bracket is selected, and on the forecast page the load effect runs for it
AgeGroupsLoaded(p) ==
  /\ ageGroup[p] = ""
  /\ ageGroup' = [ageGroup EXCEPT ![p] = AgeGroups[1]]
  /\ IF p = "forecast"
     THEN StartLoad(AgeGroups[1])
     ELSE UNCHANGED <<isLoadingModel, loadedModel, hasGenerated, loads>>
  /\ UNCHANGED <<horizon, isTraining, trainSeed, lastTrainResult, trainRun,
                 history, forecastSeed>>
  /\ UNCHANGED <<tuneVars, fcVars, mergeVars, dbVars, manualVars>>

\* the user picks another age bracket; on the forecast page the load effect
\* runs for it, whatever is still pending
SelectAgeGroup(p, g) ==
  /\ ageGroup[p] # ""
  /\ g # ageGroup[p]
  /\ ageGroup' = [ageGroup EXCEPT ![p] = g]
  /\ IF p = "forecast"
     THEN Len(loads) < MaxLoads /\ StartLoad(g)
     ELSE UNCHANGED <<isLoadingModel, loadedModel, hasGenerated, loads>>
  /\ UNCHANGED <<horizon, isTraining, trainSeed, lastTrainResult, trainRun,
                 history, forecastSeed>>
  /\ UNCHANGED <<tuneVars, fcVars, mergeVars, dbVars, manualVars>>

\* the user picks another horizon
SetHorizon(p, h) ==
  /\ h # horizon[p]
  /\ horizon' = [horizon EXCEPT ![p] = h]
  /\ UNCHANGED <<ageGroup, isTraining, trainSeed, lastTrainResult, trainRun,
                 isLoadingModel, loadedModel, history, forecastSeed, hasGenerated, loads>>
  /\ UNCHANGED <<tuneVars, fcVars, mergeVars, dbVars, manualVars>>

\* load effect: await loadAgeSeries(ageGroup) resolves; setHistory
LoadSeriesResolves(k) ==
  /\ loads[k].pc = "series"
  /\ history' = AgeSeries(loads[k].ageGroup)
  /\ loads' = [loads EXCEPT ![k].pc = "doc"]
  /\ UNCHANGED <<ageGroup, horizon, isTraining, trainSeed, lastTrainResult, trainRun,
                 isLoadingModel, loadedModel, forecastSeed, hasGenerated>>
  /\ UNCHANGED <<tuneVars, fcVars, mergeVars, dbVars, manualVars>>

\* load effect: await getDoc(mlModels_latest/ageGroup) resolves; the model
\* is the document, or null when there is none; finally isLoadingModel false
LoadDocResolves(k) ==
  /\ loads[k].pc = "doc"
  /\ loadedModel' = mlModels_latest[loads[k].ageGroup]
  /\ isLoadingModel' = FALSE
  /\ loads' = RemoveAt(loads, k)
  /\ UNCHANGED <<ageGroup, horizon, isTraining, trainSeed, lastTrainResult, trainRun,
                 history, forecastSeed, hasGenerated>>
  /\ UNCHANGED <<tuneVars, fcVars, mergeVars, dbVars, manualVars>>

\* load effect: either await rejects; catch sets the model to null, finally
\* isLoadingModel false
LoadRejects(k) ==
  /\ loadedModel' = Null
  /\ isLoadingModel' = FALSE
  /\ loads' = RemoveAt(loads, k)
  /\ UNCHANGED <<ageGroup, horizon, isTraining, trainSeed, lastTrainResult, trainRun,
                 history, forecastSeed, hasGenerated>>
  /\ UNCHANGED <<tuneVars, fcVars, mergeVars, dbVars, manualVars>>

\* mutant of ReturnsAtOnce: the test of isTraining is missing
ReturnsAtOnceNever(p) == FALSE

\* if (isTraining) return;
ReturnsAtOnce(p) == isTraining[p]

\* mutant of AfterFinally: the finally block is missing
AfterFinallySkipped(p) == isTraining

\* finally { setIsTraining(false); }
AfterFinally(p) == [isTraining EXCEPT ![p] = FALSE]

\* handleTrain up to its first await.  Called while a run is pending it
\* returns at once, and without an age bracket after setting a message;
\* otherwise setIsTraining(true), and the rest of the call runs with the
\* closure of this render
handleTrain(p) ==
  IF ReturnsAtOnce(p) \/ ageGroup[p] = ""
  THEN UNCHANGED vars
  ELSE /\ trainSeed[p] < MaxTrainSeed
       /\ isTraining' = [isTraining EXCEPT ![p] = TRUE]
       /\ trainRun' = [trainRun EXCEPT ![p] =
                         [ageGroup |-> ageGroup[p], horizon |-> horizon[p],
                          trainSeed |-> trainSeed[p], pc |-> "series",
                          series |-> <<>>, modelData |-> Null]]
       /\ UNCHANGED <<ageGroup, horizon, trainSeed, lastTrainResult,
                      isLoadingModel, loadedModel, history, forecastSeed, hasGenerated, loads>>
       /\ UNCHANGED <<tuneVars, fcVars, mergeVars, dbVars, manualVars>>

\* mutant of TooFewPoints: only the empty series is refused
TooFewPointsOnlyEmpty(series) == Len(series) < 1

\* if (series.length < 2) { ...; return; }
TooFewPoints(series) == Len(series) < 2

\* handleTrain: await loadAgeSeries(ageGroup) resolves.  The forecast page
\* sets history; fewer than 2 points end the call (finally isTraining false);
\* otherwise the seed is advanced, the selector runs and modelData is built
TrainSeriesResolves(p) ==
  /\ trainRun[p] # Null
  /\ trainRun[p].pc = "series"
  /\ LET run == trainRun[p]
         series == AgeSeries(run.ageGroup)
         nextSeed == run.trainSeed + 1
         tuned == TunedOf[p][run.ageGroup][nextSeed]
     IN  /\ history' = IF p = "forecast" THEN series ELSE history
         /\ IF TooFewPoints(series)
            THEN /\ isTraining' = AfterFinally(p)
                 /\ trainRun' = [trainRun EXCEPT ![p] = Null]
                 /\ UNCHANGED <<trainSeed, lastTrainResult>>
            ELSE /\ trainSeed' = [trainSeed EXCEPT ![p] = nextSeed]
                 /\ IF tuned = Null
                    THEN /\ isTraining' = AfterFinally(p)
                         /\ trainRun' = [trainRun EXCEPT ![p] = Null]
                         /\ UNCHANGED lastTrainResult
                    ELSE /\ lastTrainResult' =
                              [lastTrainResult EXCEPT ![p] =
                                 [tunedParams |-> tuned.params, metrics |-> tuned.metrics,
                                  dataPoints |-> Len(series)]]
                         /\ trainRun' = [trainRun EXCEPT ![p] =
                              [run EXCEPT !.pc = "addDoc", !.series = series,
                                          !.modelData = ModelData(run, series, tuned, nextSeed)]]
                         /\ UNCHANGED isTraining
  /\ UNCHANGED <<ageGroup, horizon, isLoadingModel, loadedModel, forecastSeed,
                 hasGenerated, loads>>
  /\ UNCHANGED <<tuneVars, fcVars, mergeVars, dbVars, manualVars>>

\* handleTrain: await addDoc(collection(db, "mlModels"), modelData) resolves
TrainAddDocResolves(p) ==
  /\ trainRun[p] # Null
  /\ trainRun[p].pc = "addDoc"
  /\ mlModels' = Append(mlModels, Stored(trainRun[p].modelData, serverTime))
  /\ serverTime' = serverTime + 1
  /\ trainRun' = [trainRun EXCEPT ![p].pc = "setDoc"]
  /\ UNCHANGED mlModels_latest
  /\ UNCHANGED <<ageGroup, horizon, isTraining, trainSeed, lastTrainResult,
                 isLoadingModel, loadedModel, history, forecastSeed, hasGenerated, loads>>
  /\ UNCHANGED <<tuneVars, fcVars, mergeVars, manualVars>>

\* handleTrain: await setDoc(doc(db, "mlModels_latest", ageGroup), modelData)
\* resolves; the forecast page takes modelData as its loaded model; finally
\* isTraining false
TrainSetDocResolves(p) ==
  /\ trainRun[p] # Null
  /\ trainRun[p].pc = "setDoc"
  /\ LET run == trainRun[p]
     IN  /\ mlModels_latest' =
               [mlModels_latest EXCEPT ![run.ageGroup] =
                  SetDoc(@, Stored(run.modelData, serverTime))]
         /\ loadedModel' = IF p = "forecast" THEN run.modelData ELSE loadedModel
  /\ serverTime' = serverTime + 1
  /\ hasGenerated' = IF p = "forecast" THEN FALSE ELSE hasGenerated
  /\ forecastSeed' = IF p = "forecast" THEN 0 ELSE forecastSeed
  /\ isTraining' = AfterFinally(p)
  /\ trainRun' = [trainRun EXCEPT ![p] = Null]
  /\ UNCHANGED mlModels
  /\ UNCHANGED <<ageGroup, horizon, trainSeed, lastTrainResult,
                 isLoadingModel, history, loads>>
  /\ UNCHANGED <<tuneVars, fcVars, mergeVars, manualVars>>

\* handleTrain: the pending await rejects (the dataset read or one of the two
\* writes); catch, then finally isTraining false
TrainRejects(p) ==
  /\ trainRun[p] # Null
  /\ isTraining' = AfterFinally(p)
  /\ trainRun' = [trainRun EXCEPT ![p] = Null]
  /\ UNCHANGED <<ageGroup, horizon, trainSeed, lastTrainResult,
                 isLoadingModel, loadedModel, history, forecastSeed, hasGenerated, loads>>
  /\ UNCHANGED <<tuneVars, fcVars, mergeVars, dbVars, manualVars>>

\* the Generate button (disabled while a load is pending or no model is
\* loaded) and handleGenerate, which returns after setting a message when no
\* model is loaded
handleGenerate ==
  IF loadedModel = Null
  THEN UNCHANGED vars
  ELSE /\ ~isLoadingModel
       /\ forecastSeed < MaxForecastSeed
       /\ forecastSeed' = forecastSeed + 1
       /\ hasGenerated' = TRUE
       /\ UNCHANGED <<ageGroup, horizon, isTraining, trainSeed, lastTrainResult, trainRun,
                      isLoadingModel, loadedModel, history, loads>>
       /\ UNCHANGED <<tuneVars, fcVars, mergeVars, dbVars, manualVars>>

\* handleReset of the forecast page
handleReset ==
  /\ horizon' = [horizon EXCEPT !["forecast"] = "10 Years"]
  /\ forecastSeed' = 0
  /\ hasGenerated' = FALSE
  /\ UNCHANGED <<ageGroup, isTraining, trainSeed, lastTrainResult, trainRun,
                 isLoadingModel, loadedModel, history, loads>>
  /\ UNCHANGED <<tuneVars, fcVars, mergeVars, dbVars, manualVars>>

PagesNext ==
  \/ \E p \in Pages : AgeGroupsLoaded(p)
  \/ \E p \in Pages, k \in 1..Len(AgeGroups) : SelectAgeGroup(p, AgeGroups[k])
  \/ \E p \in Pages : \E h \in HorizonsPicked(p) : SetHorizon(p, h)
  \/ \E k \in 1..Len(loads) : LoadSeriesResolves(k)
  \/ \E k \in 1..Len(loads) : LoadDocResolves(k)
  \/ \E k \in 1..Len(loads) : LoadRejects(k)
  \/ \E p \in Pages : handleTrain(p)
  \/ \E p \in Pages : TrainSeriesResolves(p)
  \/ \E p \in Pages : TrainAddDocResolves(p)
  \/ \E p \in Pages : TrainSetDocResolves(p)
  \/ \E p \in Pages : TrainRejects(p)
  \/ handleGenerate
  \/ handleReset

\* ---------------------------------------------------------------------
\* The manual-parameter page (component MLForecast)
\* ---------------------------------------------------------------------
MaxManualSeed == 3   \* trainSeed of the page when Train or Generate is pressed
MaxSaves == 1        \* documents the page adds to mlModels

\* max={10} of the lookback input (its min is 1)
MaxLookback == 10

\* const baseSeries, values in tenths
baseSeries ==
  [ALBANIA   |-> <<[year |-> 2014, value |-> 29], [year |-> 2016, value |-> 24],
                   [year |-> 2018, value |-> 18]>>,
   USA       |-> <<[year |-> 2014, value |-> 122], [year |-> 2016, value |-> 127],
                   [year |-> 2018, value |-> 134]>>,
   CANADA    |-> <<[year |-> 2014, value |-> 42], [year |-> 2016, value |-> 45],
                   [year |-> 2018, value |-> 48]>>,
   JAPAN     |-> <<[year |-> 2014, value |-> 18], [year |-> 2016, value |-> 21],
                   [year |-> 2018, value |-> 25]>>,
   AUSTRALIA |-> <<[year |-> 2014, value |-> 33], [year |-> 2016, value |-> 38],
                   [year |-> 2018, value |-> 41]>>]

\* const activationBoost, in hundredths
activationBoost(activation) ==
  IF activation = "ReLU" THEN 105 ELSE IF activation = "Tanh" THEN 102 ELSE 98

\* parseFloat(value.toFixed(2)) of the quotient num/den >= 0, in hundredths
\* (nearest, a tie upwards)
ToFixed2(num, den) == (200 * num + den) \div (2 * den)

\* generateForecast(country, horizonYears, lookback, activation, seed): the
\* points pushed, each value a number of hundredths, NaN or Infinity
generateForecast(country, hy, lookback, activation, seed) ==
  LET h == IF country \in DOMAIN baseSeries THEN baseSeries[country] ELSE <<>>
  IN  IF Len(h) = 0 THEN <<>>
      ELSE
        LET last == h[Len(h)]
            prev == h[Max(0, Len(h) - lookback) + 1]
            slope == IF Len(h) > 1
                     THEN Quotient(last.value - prev.value, 10, last.year - prev.year)
                     ELSE [kind |-> "fin", num |-> 0, den |-> 1]
            step == Max(1, (hy + 1) \div 2)
            jitter == (seed % 5) - 2
            \* last.value + drift - noise + jitter over 1000 * slope.den * hy
            ValueNum(i) == 100 * last.value * slope.den * hy
                           + slope.num * i * activationBoost(activation) * 10 * hy
                           + (jitter - 2) * last.value * i * slope.den
            ValueAt(i) ==
              IF slope.kind = "nan" THEN [kind |-> "nan", n |-> 0]
              ELSE IF slope.kind = "+inf" THEN [kind |-> "+inf", n |-> 0]
              ELSE IF slope.kind = "-inf" THEN [kind |-> "fin", n |-> 0]
              ELSE [kind |-> "fin",
                    n |-> ToFixed2(Max(0, ValueNum(i)), 1000 * slope.den * hy)]
        IN  [k \in 1..(hy \div step) |->
               [year |-> last.year + k * step, value |-> ValueAt(k * step)]]

\* the parameters the user is taken to pick among: the default and one other
\* country, horizon and activation, and every lookback the input allows.  The
\* fields dataType, neuronsLayer1, neuronsLayer2 and optimizer, which are
\* set, reset and saved like these and read by nothing else, are left out.
CountriesPicked == {"ALBANIA", "JAPAN"}
ManualHorizonsPicked == {"10 Years", "3 Years"}
ActivationsPicked == {"ReLU", "Sigmoid"}
LookbacksPicked == 1..MaxLookback

\* the useState initial values of MLForecast
MLForecastInitial ==
  [country |-> "ALBANIA", horizon |-> "10 Years", lookback |-> 3,
   activation |-> "ReLU", isTraining |-> FALSE, trainSeed |-> 0,
   hasTrained |-> FALSE, hasGenerated |-> FALSE, isSaving |-> FALSE]

\* the manual-parameter page after construction
ManualIdle ==
  /\ mlForecast = MLForecastInitial
  /\ timer = FALSE
  /\ saveRun = Null
  /\ resetIsLast = FALSE

\* const forecastPoints of a render in state s
forecastPointsOf(s) ==
  generateForecast(s.country, HorizonYears(s.horizon), s.lookback, s.activation,
                   s.trainSeed)

\* the onChange handlers of the country, horizon, lookback and activation inputs
setCountry(c) ==
  /\ mlForecast' = [mlForecast EXCEPT !.country = c]
  /\ resetIsLast' = FALSE
  /\ UNCHANGED <<timer, saveRun>>
  /\ UNCHANGED <<tuneVars, fcVars, mergeVars, dbVars, pageVars>>

setManualHorizon(h) ==
  /\ mlForecast' = [mlForecast EXCEPT !.horizon = h]
  /\ resetIsLast' = FALSE
  /\ UNCHANGED <<timer, saveRun>>
  /\ UNCHANGED <<tuneVars, fcVars, mergeVars, dbVars, pageVars>>

setLookback(l) ==
  /\ mlForecast' = [mlForecast EXCEPT !.lookback = l]
  /\ resetIsLast' = FALSE
  /\ UNCHANGED <<timer, saveRun>>
  /\ UNCHANGED <<tuneVars, fcVars, mergeVars, dbVars, pageVars>>

setActivation(a) ==
  /\ mlForecast' = [mlForecast EXCEPT !.activation = a]
  /\ resetIsLast' = FALSE
  /\ UNCHANGED <<timer, saveRun>>
  /\ UNCHANGED <<tuneVars, fcVars, mergeVars, dbVars, pageVars>>

\* the Train button (disabled while isTraining) and handleTrain up to the
\* setTimeout call
manualHandleTrain ==
  /\ ~mlForecast.isTraining
  /\ mlForecast.trainSeed < MaxManualSeed
  /\ mlForecast' = [mlForecast EXCEPT !.isTraining = TRUE]
  /\ timer' = TRUE
  /\ resetIsLast' = FALSE
  /\ UNCHANGED saveRun
  /\ UNCHANGED <<tuneVars, fcVars, mergeVars, dbVars, pageVars>>

\* the callback of the 900 ms timer
TimerFires ==
  /\ timer
  /\ mlForecast' = [mlForecast EXCEPT !.trainSeed = @ + 1, !.isTraining = FALSE,
                                      !.hasTrained = TRUE, !.hasGenerated = FALSE]
  /\ timer' = FALSE
  /\ UNCHANGED <<saveRun, resetIsLast>>
  /\ UNCHANGED <<tuneVars, fcVars, mergeVars, dbVars, pageVars>>

\* mutant of MayGenerate: the test of hasTrained is dropped
MayGenerateUntrained(s) == ~s.isTraining

\* handleGenerate goes on to the setters: not while training, and only
\* after a training run
MayGenerate(s) == ~s.isTraining /\ s.hasTrained

\* the Generate button and handleGenerate; a press that only sets the
\* message is left out
manualHandleGenerate ==
  /\ MayGenerate(mlForecast)
  /\ mlForecast.trainSeed < MaxManualSeed
  /\ mlForecast' = [mlForecast EXCEPT !.trainSeed = @ + 1, !.hasGenerated = TRUE]
  /\ resetIsLast' = FALSE
  /\ UNCHANGED <<timer, saveRun>>
  /\ UNCHANGED <<tuneVars, fcVars, mergeVars, dbVars, pageVars>>

\* handleReset of the page: isTraining, isSaving and the timer are left alone
manualHandleReset ==
  /\ mlForecast' = [mlForecast EXCEPT !.country = "ALBANIA", !.horizon = "10 Years",
                                      !.lookback = 3, !.activation = "ReLU",
                                      !.trainSeed = 0, !.hasTrained = FALSE,
                                      !.hasGenerated = FALSE]
  /\ resetIsLast' = TRUE
  /\ UNCHANGED <<timer, saveRun>>
  /\ UNCHANGED <<tuneVars, fcVars, mergeVars, dbVars, pageVars>>

\* the Save button (disabled while isSaving or not hasGenerated) and
\* handleSaveModel up to its await
handleSaveModel ==
  /\ ~mlForecast.isSaving
  /\ mlForecast.hasGenerated
  /\ Len(mlModels) < MaxSaves
  /\ mlForecast' = [mlForecast EXCEPT !.isSaving = TRUE]
  /\ saveRun' = [country |-> mlForecast.country, horizon |-> mlForecast.horizon,
                 horizonYears |-> HorizonYears(mlForecast.horizon),
                 lookback |-> mlForecast.lookback,
                 activation |-> mlForecast.activation,
                 forecastPoints |-> forecastPointsOf(mlForecast),
                 trainSeed |-> mlForecast.trainSeed,
                 savedAt |-> ServerTimestamp]
  /\ resetIsLast' = FALSE
  /\ UNCHANGED timer
  /\ UNCHANGED <<tuneVars, fcVars, mergeVars, dbVars, pageVars>>

\* await addDoc(collection(db, "mlModels"), modelData) resolves, then the
\* finally block
SaveResolves ==
  /\ saveRun # Null
  /\ mlModels' = Append(mlModels, Stored(saveRun, serverTime))
  /\ serverTime' = serverTime + 1
  /\ mlForecast' = [mlForecast EXCEPT !.isSaving = FALSE]
  /\ saveRun' = Null
  /\ UNCHANGED <<mlModels_latest, timer, resetIsLast>>
  /\ UNCHANGED <<tuneVars, fcVars, mergeVars, pageVars>>

\* addDoc rejects: the catch block, then the finally block
SaveRejects ==
  /\ saveRun # Null
  /\ mlForecast' = [mlForecast EXCEPT !.isSaving = FALSE]
  /\ saveRun' = Null
  /\ UNCHANGED <<timer, resetIsLast>>
  /\ UNCHANGED <<tuneVars, fcVars, mergeVars, dbVars, pageVars>>

ManualNext ==
  \/ \E c \in CountriesPicked : setCountry(c)
  \/ \E h \in ManualHorizonsPicked : setManualHorizon(h)
  \/ \E l \in LookbacksPicked : setLookback(l)
  \/ \E a \in ActivationsPicked : setActivation(a)
  \/ manualHandleTrain
  \/ TimerFires
  \/ manualHandleGenerate
  \/ manualHandleReset
  \/ handleSaveModel
  \/ SaveResolves
  \/ SaveRejects

\* the pages around the two functions are idle
AppIdle == MergeIdle /\ PagesIdle /\ ManualIdle

\* ---------------------------------------------------------------------
\* Specifications
\* ---------------------------------------------------------------------
\* tuneHyperparameters run on every drawn (page, history, seed)
InitTune ==
  /\ page \in {"training", "forecast"}
  /\ tuneHistory \in TuneHistories
  /\ tuneSeed \in 0..MaxSeed
  /\ tunePc = "start"
  /\ candidates = <<>>
  /\ tuneI = 0
  /\ best = Null
  /\ evaluated = <<>>
  /\ tuneResult = Null
  /\ FcIdle
  /\ AppIdle

SpecTune == InitTune /\ [][TuneNext]_vars

\* generateForecastFromHistory run on every drawn (history, horizon, params, seed)
InitForecast ==
  /\ fcHistory \in FcHistories
  /\ horizonYears \in 1..MaxHorizon
  /\ fcParams \in FcConfigs
  /\ fcSeed \in FcSeeds
  /\ fcPc = "start"
  /\ fcI = 0
  /\ rolling = <<>>
  /\ points = <<>>
  /\ steps = <<>>
  /\ fcResult = Null
  /\ TuneIdle
  /\ AppIdle

SpecForecast == InitForecast /\ [][FcNext]_vars

\* either function run on its drawn arguments
InitCore == InitTune \/ InitForecast

CoreNext == TuneNext \/ FcNext

SpecCore == InitCore /\ [][CoreNext]_vars

\* the merge run on every drawn pair of row sequences
InitMerge ==
  /\ mergeHistorical \in {HistoricalRows(h) : h \in MergeHistories}
  /\ mergeForecast \in {ForecastRows(ps) : ps \in MergeForecasts}
  /\ mergePc = "start"
  /\ mergedSeries = <<>>
  /\ TuneIdle
  /\ FcIdle
  /\ PagesIdle
  /\ ManualIdle

SpecMerge == InitMerge /\ [][MergeNext]_vars

\* both pages opened on the database: empty, or holding for the first age
\* bracket one model stored by an earlier version of the training code
InitPages ==
  /\ \E earlier \in BOOLEAN :
       /\ mlModels = IF earlier THEN <<EarlierModel(AgeGroups[1])>> ELSE <<>>
       /\ mlModels_latest = [g \in {AgeGroups[k] : k \in 1..Len(AgeGroups)} |->
                               IF earlier /\ g = AgeGroups[1] THEN EarlierModel(g) ELSE Null]
  /\ serverTime = 0
  /\ ageGroup = [p \in Pages |-> ""]
  /\ horizon = [p \in Pages |-> "10 Years"]
  /\ isTraining = [p \in Pages |-> FALSE]
  /\ trainSeed = [p \in Pages |-> 0]
  /\ lastTrainResult = [p \in Pages |-> Null]
  /\ trainRun = [p \in Pages |-> Null]
  /\ isLoadingModel = FALSE
  /\ loadedModel = Null
  /\ history = <<>>
  /\ forecastSeed = 0
  /\ hasGenerated = FALSE
  /\ loads = <<>>
  /\ TuneIdle
  /\ FcIdle
  /\ MergeIdle
  /\ ManualIdle

SpecPages == InitPages /\ [][PagesNext]_vars

\* the manual-parameter page opened on an empty database
InitManual ==
  /\ ManualIdle
  /\ TuneIdle
  /\ FcIdle
  /\ MergeIdle
  /\ PagesIdle

SpecManual == InitManual /\ [][ManualNext]_vars

\* the pending await of page p's training run resolves or rejects
TrainStep(p) ==
  \/ TrainSeriesResolves(p)
  \/ TrainAddDocResolves(p)
  \/ TrainSetDocResolves(p)
  \/ TrainRejects(p)

\* the pages, every database call of a training run resolving or rejecting
\* in the end
SpecPagesFair == SpecPages /\ \A p \in Pages : WF_vars(TrainStep(p))

\* ---------------------------------------------------------------------
\* Properties of tuneHyperparameters (checked under SpecTune)
\* ---------------------------------------------------------------------
\* the metrics of candidates[k] (1-based k), scored with sub-seed seed + (k-1)
ScoreAt(k) == computeSyntheticMetrics(tuneHistory, candidates[k], tuneSeed + (k - 1))

\* the unrounded validationLoss of candidates[k], in 1e-7
RawLossAt(k) == ValidationLoss(candidates[k], tuneSeed + (k - 1))

TuneSelectsOnUnroundedLoss ==
  tunePc = "done" =>
    \E k \in 1..Len(candidates) :
      /\ tuneResult.params = candidates[k]
      /\ \A j \in 1..Len(candidates) : RawLossAt(j) >= RawLossAt(k)
      /\ \A j \in 1..(k - 1) : RawLossAt(j) > RawLossAt(k)

\* C10: the training page's tuneHyperparameters scores each of the 240
\* combinations of lookback, units1, units2 and activation exactly once, in
\* nested order lookback, units1, units2, activation, the candidate at
\* 0-based index i with sub-seed seed+i.
TrainingGridScoredOnceInOrder ==
  /\ tunePc \in {"loop", "done"} => Len(evaluated) = tuneI
  /\ (page = "training" /\ tunePc = "done") =>
       /\ Len(evaluated) = 240
       /\ \A k \in 1..Len(evaluated) :
            LET i == k - 1
                e == evaluated[k]
            IN  /\ e.seed = tuneSeed + i
                /\ e.params.lookback = <<2, 3, 4, 5, 6>>[(i \div 48) + 1]
                /\ e.params.neuronsLayer1 = <<32, 64, 96, 128>>[((i \div 12) % 4) + 1]
                /\ e.params.neuronsLayer2 = <<0, 16, 32, 64>>[((i \div 3) % 4) + 1]
                /\ e.params.activation = <<"ReLU", "Tanh", "Sigmoid">>[(i % 3) + 1]
       /\ {<<evaluated[k].params.lookback, evaluated[k].params.neuronsLayer1,
             evaluated[k].params.neuronsLayer2, evaluated[k].params.activation>> :
             k \in 1..Len(evaluated)}
          = {2, 3, 4, 5, 6} \X {32, 64, 96, 128} \X {0, 16, 32, 64}
              \X {"ReLU", "Tanh", "Sigmoid"}

\* C10 witness: a finished run of the training page that scored 240 candidates.
TrainingGridWitness ==
  /\ page = "training"
  /\ tunePc = "done"
  /\ Len(evaluated) = 240
  /\ tuneSeed >= 1

\* ---------------------------------------------------------------------
\* Properties of generateForecastFromHistory (checked under SpecForecast)
\* ---------------------------------------------------------------------
\* the call of the concrete scenario
Scenario ==
  /\ fcHistory = <<Point(2018, 100), Point(2019, 110), Point(2020, 120)>>
  /\ fcParams.lookback = 3
  /\ fcParams.neuronsLayer1 = 64
  /\ fcParams.neuronsLayer2 = 0
  /\ fcParams.activation = "ReLU"
  /\ fcSeed = 0
  /\ horizonYears = 2

\* C3 (as stated): in the concrete scenario the first point returned is
\* value 111 at year 2021.
ScenarioFirstPointIs111 ==
  (Scenario /\ fcPc = "done") =>
    fcResult[1] = [year |-> 2021, value |-> Num(111)]

\* C3 (amended): in the concrete scenario the first point returned is value
\* 112 at year 2021: baseline 110, slope 5, and the first step runs with
\* per-step seed 0 + 1, so jitter is ((1 mod 5) - 2) * 0.01 * 110 = -1.1.
ScenarioFirstPointIs112 ==
  (Scenario /\ fcPc = "done") =>
    /\ Len(fcResult) = 2
    /\ fcResult[1] = [year |-> 2021, value |-> Num(112)]
    /\ steps[1].seed = 1
    /\ ~steps[1].baseline.nan
    /\ steps[1].baseline.num = 110 * steps[1].baseline.den
    /\ steps[1].prev = Point(2018, 100)
    /\ ~steps[1].slope.nan
    /\ steps[1].slope.num = 5 * steps[1].slope.den

\* C3 witness: the scenario's call has returned, its first value being 112.
ScenarioWitness ==
  /\ Scenario
  /\ fcPc = "done"
  /\ fcResult[1].value = Num(112)

\* C4: for a non-empty history the generator returns exactly horizonYears
\* points, the i-th at year (last history year) + i.
ForecastHasHorizonPoints ==
  (fcPc = "done" /\ Len(fcHistory) > 0) =>
    /\ Len(fcResult) = horizonYears
    /\ \A k \in 1..Len(fcResult) :
         fcResult[k].year = fcHistory[Len(fcHistory)].year + k

\* C4 witness: a finished call on a non-empty history with a horizon of at
\* least 2 that returned horizonYears points.
ForecastHorizonWitness ==
  /\ fcPc = "done"
  /\ Len(fcHistory) > 0
  /\ horizonYears >= 2
  /\ Len(fcResult) = horizonYears
  /\ fcResult[horizonYears].year = fcHistory[Len(fcHistory)].year + horizonYears

\* C5: in a prediction step whose reference point prev has the year of the
\* last point of a series of more than one point, the slope used is 0 and
\* the value is finite; no NaN reaches the output or later steps.
DuplicateYearSlopeIsZero ==
  /\ \A k \in 1..Len(steps) :
       (Len(steps[k].history) > 1 /\ steps[k].last.year = steps[k].prev.year) =>
          /\ ~steps[k].slope.nan
          /\ steps[k].slope.num = 0
          /\ ~steps[k].predicted.nan
  /\ \A k \in 1..Len(points) : ~points[k].value.nan
  /\ \A k \in 1..Len(rolling) : ~rolling[k].value.nan

\* C6: every value of the output is a whole number >= 0.
ForecastValuesAreNaturals ==
  \A k \in 1..Len(points) :
    /\ ~points[k].value.nan
    /\ points[k].value.n \in Nat

\* C7: in every prediction step the slope used lies in
\* [-0.5*baseline, 0.5*baseline] of that step's baseline.
SlopeWithinHalfBaseline ==
  \A k \in 1..Len(steps) :
    LET b == steps[k].baseline
        sl == steps[k].slope
    IN  /\ ~sl.nan
        /\ ~b.nan
        /\ 2 * sl.num * b.den <= b.num * sl.den
        /\ 2 * sl.num * b.den >= -(b.num * sl.den)

\* C8: the point predicted at step i is appended to the rolling series
\* before step i+1 is computed: the series step i+1 reads is the history
\* followed by the i points predicted so far, and its baseline window ends
\* with the point predicted at step i.
PredictionsFeedBack ==
  /\ fcPc = "loop" => rolling = fcHistory \o points
  /\ \A k \in 1..Len(steps) :
       LET h == fcHistory \o SubSeq(points, 1, k - 1)
           w == steps[k].window
       IN  /\ steps[k].history = h
           /\ w = SubSeq(h, Max(0, Len(h) - fcParams.lookback) + 1, Len(h))
           /\ k >= 2 => (Len(w) > 0 /\ w[Len(w)] = points[k - 1])
           /\ ~steps[k].baseline.nan =>
                steps[k].baseline.num * Len(w) = SumValues(w) * steps[k].baseline.den

\* C8 witness: a second step was computed and its window holds the first
\* predicted point.
FeedBackWitness ==
  /\ Len(steps) >= 2
  /\ \E m \in 1..Len(steps[2].window) : steps[2].window[m] = points[1]
  /\ fcPc = "done"

\* C9: on an empty history the generator returns the empty sequence, without
\* computing any step.
EmptyHistoryReturnsEmpty ==
  (Len(fcHistory) = 0 /\ fcPc \notin {"start", "idle"}) =>
    /\ fcPc = "done"
    /\ fcResult = <<>>
    /\ steps = <<>>

\* C9 witness: a call on the empty history has returned the empty sequence.
EmptyHistoryWitness ==
  /\ fcHistory = <<>>
  /\ fcPc = "done"
  /\ fcResult = <<>>
  /\ horizonYears >= 1

\* C11: tuneHyperparameters never returns null: for every history, the
\* empty one included, and every seed it returns a candidate of the grid with
\* its metrics, whose mae is 0.05 + lookback/50 + 0.1/max(1, history length)
\* to three decimals.
TuneNeverReturnsNull ==
  tunePc = "done" =>
    /\ tuneResult # Null
    /\ \E k \in 1..Len(candidates) : tuneResult.params = candidates[k]
    /\ LET n == IF Len(tuneHistory) >= 1 THEN Len(tuneHistory) ELSE 1
           lb == tuneResult.params.lookback
           m == tuneResult.metrics.mae
       IN  \* |m/1000 - (0.05 + lb/50 + 0.1/n)| <= 0.0005
           /\ 2 * n * m - n <= 2 * ((50 + 20 * lb) * n + 100)
           /\ 2 * ((50 + 20 * lb) * n + 100) <= 2 * n * m + n
    /\ tuneResult.metrics.trainingLoss >= 10
    /\ tuneResult.metrics.validationLoss >= 10

\* C11 witness: a call on the empty history has returned a configuration.
TuneEmptyHistoryWitness ==
  /\ tunePc = "done"
  /\ tuneHistory = <<>>
  /\ tuneResult # Null
  /\ tuneResult.metrics.mae = 50 + 20 * tuneResult.params.lookback + 100

\* C17: on a single-point history the generator does not fail: the first
\* step takes the sole point as last and as prev with slope 0, and every
\* step, the later ones included, yields a whole number.
SinglePointHistoryForecasts ==
  Len(fcHistory) = 1 =>
    /\ fcPc # "threw"
    /\ Len(steps) >= 1 =>
         /\ steps[1].last = fcHistory[1]
         /\ steps[1].prev = fcHistory[1]
         /\ steps[1].rawSlope = [kind |-> "fin", num |-> 0, den |-> 1]
         /\ ~steps[1].slope.nan
         /\ steps[1].slope.num = 0
    /\ \A k \in 2..Len(steps) :
         /\ steps[k].last.year # steps[k].prev.year
         /\ steps[k].rawSlope.kind = "fin"
    /\ \A k \in 1..Len(points) :
         /\ ~points[k].value.nan
         /\ points[k].value.n \in Nat
    /\ fcPc = "done" => Len(fcResult) = horizonYears

\* C17 witness: a call on a single-point history has returned after at least
\* two steps.
SinglePointWitness ==
  /\ Len(fcHistory) = 1
  /\ fcPc = "done"
  /\ Len(steps) >= 2
  /\ steps[1].prev = steps[1].last
  /\ ~fcResult[2].value.nan

\* the configuration c with its optimizer label replaced by o
WithOptimizer(c, o) == [c EXCEPT !.optimizer = o]

\* C18: every candidate's optimizer label is
\* optimizers[(lookback + units1 + units2 + seed) mod 3], one of Adam,
\* RMSProp, SGD, and the label has no effect: a configuration with any other
\* label gets the same metrics and the same predicted value.
OptimizerIsOnlyALabel ==
  /\ \A k \in 1..Len(candidates) :
       LET c == candidates[k]
       IN  /\ c.optimizer \in {"Adam", "RMSProp", "SGD"}
           /\ c.optimizer =
                <<"Adam", "RMSProp", "SGD">>
                  [((c.lookback + c.neuronsLayer1 + c.neuronsLayer2 + tuneSeed) % 3) + 1]
  /\ tunePc = "done" =>
       \A k \in 1..Len(candidates) : \A o \in {"Adam", "RMSProp", "SGD"} :
         /\ computeSyntheticMetrics(tuneHistory, WithOptimizer(candidates[k], o),
                                    tuneSeed + (k - 1))
            = computeSyntheticMetrics(tuneHistory, candidates[k], tuneSeed + (k - 1))
         /\ predictNextValue(tuneHistory, WithOptimizer(candidates[k], o), tuneSeed + 1)
            = predictNextValue(tuneHistory, candidates[k], tuneSeed + 1)

\* C18 witness: a finished run with a seed training uses (>= 1) whose grid
\* carries all three labels.
OptimizerLabelsWitness ==
  /\ tunePc = "done"
  /\ tuneSeed >= 1
  /\ Len(tuneHistory) >= 2
  /\ {candidates[k].optimizer : k \in 1..Len(candidates)} = {"Adam", "RMSProp", "SGD"}

\* C20: forecast step i (1-based) calls predictNextValue with seed + i, and
\* its result is round(max(0, baseline + slope*boost - 0.02*baseline
\* + ((seed+i) mod 5 - 2)*0.01*baseline)), baseline being the mean of the
\* trailing min(lookback, length) rolling values, prev the rolling point at
\* index max(0, length - lookback - 1) and boost 1.05 / 1.02 / 0.98 for
\* ReLU / Tanh / other.
StepFollowsFormula ==
  \A k \in 1..Len(steps) :
    LET st == steps[k]
        h == st.history
        n == Len(h)
        lb == fcParams.lookback
        w == SubSeq(h, n - Min(lb, n) + 1, n)
        b == st.baseline
        sl == st.slope
        boost == IF fcParams.activation = "ReLU" THEN 105
                 ELSE IF fcParams.activation = "Tanh" THEN 102 ELSE 98
        j == ((fcSeed + k) % 5) - 2
        \* the sum, times 100 * b.den * sl.den
        x == 100 * b.num * sl.den + sl.num * boost * b.den
               - 2 * b.num * sl.den + j * b.num * sl.den
        d == 100 * b.den * sl.den
        v == IF x > 0 THEN x ELSE 0
    IN  /\ st.seed = fcSeed + k
        /\ st.window = w
        /\ st.prev = h[(IF n - lb - 1 > 0 THEN n - lb - 1 ELSE 0) + 1]
        /\ ~b.nan => b.num * Len(w) = SumValues(w) * b.den
        /\ st.predicted.nan <=> (b.nan \/ sl.nan)
        /\ ~st.predicted.nan =>
             /\ 2 * d * st.predicted.n - d <= 2 * v
             /\ 2 * v <= 2 * d * st.predicted.n + d
        /\ points[k].value = st.predicted

\* C20 witness: a finished call whose second step ran with seed + 2 on a
\* window of lookback points, with a slope that is neither 0 nor NaN.
StepFormulaWitness ==
  /\ fcPc = "done"
  /\ Len(steps) >= 2
  /\ steps[2].seed = fcSeed + 2
  /\ Len(steps[2].window) = fcParams.lookback
  /\ ~steps[2].slope.nan
  /\ steps[2].slope.num # 0
  /\ ~steps[2].predicted.nan

\* C19: neither function changes the history sequence it is given; predicted
\* points are appended to rolling only.
HistoryArgumentUnchanged ==
  [][/\ fcHistory' = fcHistory
     /\ tuneHistory' = tuneHistory
     /\ fcPc' = "loop" =>
          (Len(rolling') >= Len(fcHistory) /\ SubSeq(rolling', 1, Len(fcHistory)) = fcHistory)]_vars

\* C19 witness: a call of the generator has returned with points appended to
\* rolling, the history being a proper prefix of it.
HistoryUnchangedWitness ==
  /\ fcPc = "done"
  /\ Len(fcHistory) >= 1
  /\ Len(fcResult) >= 2
  /\ rolling = fcHistory \o fcResult

\* ---------------------------------------------------------------------
\* Properties of mergedSeries (checked under SpecMerge)
\* ---------------------------------------------------------------------
\* the rows of year y, in the order they have in rows
RowsOfYear(rows, y) ==
  LET OfYear(r) == r.year = y
  IN  SelectSeq(rows, OfYear)

\* C13: the merged series holds every historical and every forecast row (for
\* each year exactly the rows of that year of the input, a year in both
\* inputs included), ascending by year, rows of equal year in input order:
\* historical before forecast.
MergedSeriesKeepsAllRowsSorted ==
  mergePc = "done" =>
    LET input == mergeHistorical \o mergeForecast
    IN  /\ Len(mergedSeries) = Len(mergeHistorical) + Len(mergeForecast)
        /\ \A y \in 2018..(2021 + MaxHorizon) :
             RowsOfYear(mergedSeries, y) = RowsOfYear(input, y)
        /\ \A i, j \in 1..Len(mergedSeries) :
             i < j => mergedSeries[i].year <= mergedSeries[j].year

\* C13 witness: a merge in which a year occurs twice in the history and in
\* the forecast as well, and a forecast row ends up before a historical row.
MergedSeriesWitness ==
  /\ mergePc = "done"
  /\ \E y \in 2018..2020 :
       /\ Len(RowsOfYear(mergeHistorical, y)) = 2
       /\ Len(RowsOfYear(mergeForecast, y)) = 1
  /\ \E i, j \in 1..Len(mergedSeries) :
       /\ i < j
       /\ mergedSeries[i].forecast # Null
       /\ mergedSeries[j].historical # Null

\* ---------------------------------------------------------------------
\* Properties of the pages (checked under SpecPages)
\* ---------------------------------------------------------------------
\* C14: every call of the selector and of the forecast generator is made
\* with a history of at least 2 points: a training run that has passed the
\* selector did so on a series of 2 or more points, and the forecastPoints
\* memo calls the generator only with a history of 2 or more points.
CallSitesGuardHistory ==
  /\ \A p \in Pages :
       (trainRun[p] # Null /\ trainRun[p].pc \in {"addDoc", "setDoc"}) =>
         Len(trainRun[p].series) >= 2
  /\ ForecastCall # Null => Len(ForecastCall.history) >= 2

\* C15: mlModels_latest changes only when the setDoc of a training run
\* resolves, and the document of the run's age bracket is then exactly the
\* run's modelData with the timestamp resolved, no field of the document it
\* replaces being left; a load of the forecast page that ends with a model
\* has read exactly the document stored for the age bracket it was started for.
TrainingReplacesLatestRecord ==
  [][/\ \A g \in DOMAIN mlModels_latest :
          mlModels_latest'[g] # mlModels_latest[g] =>
            \E p \in Pages :
              /\ trainRun[p] # Null
              /\ trainRun[p].pc = "setDoc"
              /\ trainRun[p].ageGroup = g
              /\ trainRun'[p] = Null
              /\ mlModels_latest'[g] = Stored(trainRun[p].modelData, serverTime)
     /\ \A p \in Pages :
          (/\ trainRun[p] # Null
           /\ trainRun[p].pc = "setDoc"
           /\ trainRun'[p] = Null
           /\ serverTime' # serverTime) =>
            mlModels_latest'[trainRun[p].ageGroup] = Stored(trainRun[p].modelData, serverTime)
     /\ (Len(loads') < Len(loads) /\ loadedModel' # Null) =>
          \E k \in 1..Len(loads) :
            /\ loads[k].pc = "doc"
            /\ loads' = RemoveAt(loads, k)
            /\ loadedModel' = mlModels_latest[loads[k].ageGroup]]_vars

\* C15 witness: the database held an earlier model for the first age
\* bracket, a training run has replaced it, and the forecast page has loaded
\* the new document (its timestamp is the server's, not the sentinel).
TrainingReplacesWitness ==
  /\ Len(mlModels) >= 2
  /\ mlModels[1] = EarlierModel(AgeGroups[1])
  /\ loads = <<>>
  /\ ageGroup["forecast"] = AgeGroups[1]
  /\ loadedModel # Null
  /\ loadedModel = mlModels_latest[AgeGroups[1]]
  /\ "trainSeed" \in DOMAIN loadedModel
  /\ loadedModel.savedAt >= 0
  /\ DOMAIN loadedModel.metrics = {"trainingLoss", "validationLoss", "mae"}

\* a stored document apart from its server timestamp
WithoutSavedAt(r) == IF "savedAt" \in DOMAIN r THEN [r EXCEPT !.savedAt = 0] ELSE r

\* the document most recently added to mlModels for age bracket g, or null
LastAppended(g) ==
  LET ks == {k \in 1..Len(mlModels) : mlModels[k].ageGroup = g}
  IN  IF ks = {} THEN Null
      ELSE mlModels[CHOOSE k \in ks : \A j \in ks : j <= k]

\* C16: when no training run is in flight, the document of mlModels_latest
\* for an age bracket is the one most recently added to mlModels for it.
LatestIsLastAppended ==
  (\A p \in Pages : trainRun[p] = Null) =>
    \A g \in DOMAIN mlModels_latest :
      WithoutSavedAt(mlModels_latest[g]) = WithoutSavedAt(LastAppended(g))

\* C21: on the forecast page, whenever no load is pending, the history is
\* the series of the selected age bracket and the loaded model, if there is
\* one, is a model of the selected age bracket.
LoadedStateIsOfSelectedBracket ==
  loads = <<>> =>
    /\ history = (IF ageGroup["forecast"] = "" THEN <<>> ELSE AgeSeries(ageGroup["forecast"]))
    /\ loadedModel # Null => loadedModel.ageGroup = ageGroup["forecast"]

\* C22: on the forecast page isLoadingModel is true whenever a load is pending.
LoadingFlagCoversPendingLoads ==
  loads # <<>> => isLoadingModel

\* the position of handleTrain after the await at position pc has resolved
NextTrainPc(pc) == IF pc = "series" THEN "addDoc" ELSE "setDoc"

\* C23: at most one training run per page is in flight.  While isTraining
\* holds on a page, the page has its one pending run, and any step that
\* changes the page's run, seed or last result is a step of that run (its
\* pending await resolves or rejects): a call of handleTrain made meanwhile
\* starts nothing, and the database is written only by a pending addDoc or
\* setDoc.
OneTrainingRunPerPage ==
  [][/\ \A p \in Pages :
          isTraining[p] =>
            /\ trainRun[p] # Null
            /\ (trainRun'[p] # trainRun[p] \/ trainSeed'[p] # trainSeed[p]
                  \/ lastTrainResult'[p] # lastTrainResult[p]) =>
                 \/ trainRun'[p] = Null
                 \/ /\ trainRun'[p].pc = NextTrainPc(trainRun[p].pc)
                    /\ trainRun[p].pc # "setDoc"
                    /\ trainRun'[p].ageGroup = trainRun[p].ageGroup
                    /\ trainRun'[p].horizon = trainRun[p].horizon
                    /\ trainRun'[p].trainSeed = trainRun[p].trainSeed
     /\ (mlModels' # mlModels \/ mlModels_latest' # mlModels_latest) =>
          \E p \in Pages :
            /\ trainRun[p] # Null
            /\ trainRun[p].pc \in {"addDoc", "setDoc"}
            /\ trainRun'[p] # trainRun[p]]_vars

\* C23 witness: the forecast page's run waits for its setDoc while the user
\* has already picked another age bracket, so a second call of handleTrain
\* would run with another closure.
OneTrainingRunWitness ==
  /\ isTraining["forecast"]
  /\ trainRun["forecast"] # Null
  /\ trainRun["forecast"].pc = "setDoc"
  /\ ageGroup["forecast"] # trainRun["forecast"].ageGroup
  /\ isTraining["training"]

\* C24: every training run that starts ends with isTraining false, whichever
\* way it ends, provided each of its database calls resolves or rejects.
TrainingRunEnds ==
  \A p \in Pages : isTraining[p] ~> ~isTraining[p]

\* C24 witness: on an empty database both pages have advanced their seed and
\* are no longer training, the forecast page after a run that saved its
\* model, the training page after a run whose write was rejected.
TrainingRunEndsWitness ==
  /\ \A p \in Pages : ~isTraining[p] /\ trainSeed[p] = 1 /\ trainRun[p] = Null
  /\ loadedModel # Null
  /\ "savedAt" \in DOMAIN loadedModel
  /\ loadedModel.savedAt = ServerTimestamp
  /\ Len(mlModels) = 1

\* C25: a training run whose series has fewer than 2 points runs no tuning
\* and writes nothing: as long as it waits for the series, the page's seed and
\* last result stay as they are, and its only step is its end, which leaves
\* mlModels and mlModels_latest unchanged and isTraining false.
ShortSeriesRunChangesNothing ==
  [][\A p \in Pages :
       (/\ trainRun[p] # Null
        /\ trainRun[p].pc = "series"
        /\ Len(AgeSeries(trainRun[p].ageGroup)) < 2) =>
         /\ trainSeed'[p] = trainSeed[p]
         /\ lastTrainResult'[p] = lastTrainResult[p]
         /\ trainRun'[p] \in {trainRun[p], Null}
         /\ trainRun'[p] = Null =>
              /\ mlModels' = mlModels
              /\ mlModels_latest' = mlModels_latest
              /\ ~isTraining'[p]]_vars

\* C25 witness: the forecast page shows the one-point series of the second
\* age bracket with no run pending, no seed used and nothing stored, while
\* the training page's run for that bracket waits for its series.
ShortSeriesRunWitness ==
  /\ ageGroup["forecast"] = AgeGroups[2]
  /\ Len(AgeSeries(AgeGroups[2])) = 1
  /\ history = AgeSeries(AgeGroups[2])
  /\ loads = <<>>
  /\ ~isTraining["forecast"]
  /\ trainSeed["forecast"] = 0
  /\ lastTrainResult["forecast"] = Null
  /\ mlModels = <<>>
  /\ trainRun["training"] # Null
  /\ trainRun["training"].pc = "series"
  /\ trainRun["training"].ageGroup = AgeGroups[2]

\* C26: forecast points are produced only while a model is loaded and
\* hasGenerated is true; hasGenerated is false after every change of the age
\* bracket, every training run of the page that saved its model and every
\* Reset; and the forecast is shown only for the model Generate was pressed
\* for: while hasGenerated stays true, the loaded model is not replaced by
\* another one.
ForecastShownOnlyAfterGenerate ==
  [][/\ ForecastCall' # Null => (loadedModel' # Null /\ hasGenerated')
     /\ ageGroup'["forecast"] # ageGroup["forecast"] => ~hasGenerated'
     /\ (/\ trainRun["forecast"] # Null
         /\ trainRun["forecast"].pc = "setDoc"
         /\ trainRun'["forecast"] = Null
         /\ serverTime' # serverTime) => ~hasGenerated'
     /\ (hasGenerated /\ hasGenerated' /\ loadedModel' # Null) =>
          WithoutSavedAt(loadedModel') = WithoutSavedAt(loadedModel)]_vars

\* C27: on the manual-parameter page hasGenerated implies hasTrained;
\* hasGenerated becomes true only by a press of Generate after a completed
\* training run, and the end of a training run makes it false;
\* handleSaveModel starts a write only while hasGenerated is true, and a
\* document reaches mlModels only through such a write.
SaveOnlyAfterGenerate ==
  [][/\ mlForecast.hasGenerated => mlForecast.hasTrained
     /\ mlForecast'.hasGenerated => mlForecast'.hasTrained
     /\ (~mlForecast.hasGenerated /\ mlForecast'.hasGenerated) =>
          (mlForecast.hasTrained /\ ~mlForecast.isTraining /\ ~timer)
     /\ (timer /\ ~timer') => ~mlForecast'.hasGenerated
     /\ (saveRun = Null /\ saveRun' # Null) =>
          (mlForecast.hasGenerated /\ mlForecast.hasTrained)
     /\ Len(mlModels') > Len(mlModels) =>
          (saveRun # Null /\ mlModels' = Append(mlModels, Stored(saveRun, serverTime)))]_vars

\* a document saved by the page is in mlModels, and the page shows a
\* generated forecast of a trained model
SaveOnlyAfterGenerateWitness ==
  /\ Len(mlModels) > 0
  /\ mlModels[1].savedAt >= 0
  /\ mlForecast.hasGenerated
  /\ mlForecast.hasTrained

\* the values handleReset leaves in the state the claim lists: the initial
\* ones
ResetValues(s) ==
  /\ s.country = MLForecastInitial.country
  /\ s.horizon = MLForecastInitial.horizon
  /\ s.lookback = MLForecastInitial.lookback
  /\ s.activation = MLForecastInitial.activation
  /\ s.trainSeed = 0
  /\ ~s.hasTrained
  /\ ~s.hasGenerated

\* C28: after handleReset, and as long as the user does nothing further on
\* the page, its state is the initial one: trainSeed 0, hasTrained false,
\* hasGenerated false and the default parameters.
ResetStateStays == resetIsLast => ResetValues(mlForecast)

\* C29: every value of the forecast the page computes from its state is a
\* defined number >= 0, for every lookback the input allows.
ForecastValuesDefined ==
  \A k \in DOMAIN forecastPointsOf(mlForecast) :
    /\ forecastPointsOf(mlForecast)[k].value.kind = "fin"
    /\ forecastPointsOf(mlForecast)[k].value.n >= 0

====
